---- MODULE Spec2Model ----
(***************************************************************************)
(* Model of video_img.py: extract_frames_from_video (the frame sampler),   *)
(* create_zip_from_folder (the archive builder) and the part of main that  *)
(* drives them for one click on the extraction button.                     *)
(*                                                                         *)
(* Numbers with a fractional part (the frame rate) are kept in hundredths: *)
(* fps100 = 2997 stands for 29.97 frames per second.                       *)
(* A path is a sequence of components; a file's bytes are an opaque value. *)
(***************************************************************************)
EXTENDS Integers, Sequences, FiniteSets, TLC

VARIABLES
    pc,               \* position of the request: see the actions
    caller,           \* "main": create_zip_from_folder called by main; "direct": called on its own
    exc,              \* the exception in flight or caught ("none" when there is none)
    \* the video source (cv2.VideoCapture)
    fps100,           \* CAP_PROP_FPS, in hundredths
    interval_seconds, \* the sampling interval handed in
    nFrames,          \* the number of frames cap.read() yields before it reports exhaustion
    declaredFrames,   \* CAP_PROP_FRAME_COUNT, which the container may misreport
    capOpen,          \* the capture handle is open
    \* locals of extract_frames_from_video
    frame_interval, frame_count, saved_count, total_frames,
    progress,         \* the last fraction handed to progress_bar.progress, <<num, den>>
    written,          \* the source indices of the frames handed to cv2.imwrite, in order
    \* the file system
    fs,               \* absolute path of a regular file |-> [data, readable]
    folderState,      \* the directory handed to create_zip_from_folder: "ok", "missing", "unreadable"
    \* create_zip_from_folder
    folder_path, treeAtOpen, zipExists, archive, walkStack, walkRoot, walkFiles, zipResult,
    \* what main showed
    ui, downloadOffered

exVars  == <<fps100, interval_seconds, nFrames, declaredFrames, capOpen,
             frame_interval, frame_count, saved_count, total_frames, progress, written>>
zipVars == <<folder_path, treeAtOpen, zipExists, archive, walkStack, walkRoot, walkFiles, zipResult>>
uiVars  == <<ui, downloadOffered>>
vars    == <<pc, caller, exc, exVars, fs, folderState, zipVars, uiVars>>

----------------------------------------------------------------------------
(* Bounds of the model *)

MaxFrames == 4
MaxInterval == 2
MaxData == 1

(* Frame rates tried, in hundredths: negative, zero, below one, whole,
   with a fraction below and above one half, and NTSC's 29.97 *)
FpsSet == {-150, -50, 0, 75, 100, 125, 175, 2997}
IntervalSet == 1..MaxInterval
DeclaredSet == -1..(MaxFrames + 1)

----------------------------------------------------------------------------
(* Python arithmetic *)

\* a variant that rounds to the nearest integer instead
PyInt100_Rounds(x100) == IF x100 >= 0 THEN (x100 + 50) \div 100 ELSE -((-x100 + 50) \div 100)

\* int(x) of a float x = x100 / 100: truncation toward zero
PyInt100(x100) == IF x100 >= 0 THEN x100 \div 100 ELSE -((-x100) \div 100)

\* a % b for b # 0: the result takes the sign of the divisor
PyMod(a, b) == IF b > 0 THEN a % b ELSE -((-a) % (-b))

----------------------------------------------------------------------------
(* extract_frames_from_video *)

OutputDir == <<"tmp", "tmpframes">>

Digit == <<"0", "1", "2", "3", "4", "5", "6", "7", "8", "9">>

\* f"{n:04d}"
Pad4(n) == Digit[((n \div 1000) % 10) + 1] \o Digit[((n \div 100) % 10) + 1]
           \o Digit[((n \div 10) % 10) + 1] \o Digit[(n % 10) + 1]

FrameFilename(n) == "frame_" \o Pad4(n) \o ".jpg"

\* os.path.join(dir, name)
Join(dir, name) == Append(dir, name)

FrameIntervalOf(fps, secs) == PyInt100(fps * secs)

\* a variant that tests the number of frames read, not the index of the frame
IsSampled_CountsFromOne(count, step) == PyMod(count + 1, step) = 0

\* the sampling test of line 33, for a non-zero frame_interval
IsSampled(count, step) == PyMod(count, step) = 0

\* min(frame_count / total_frames, 1.0) for total_frames > 0, as <<num, den>>
Clamped(count, total) == IF count >= total THEN <<1, 1>> ELSE <<count, total>>

\* lines 14-25: open the capture, read its metadata, set the counters
ExtractOpen ==
    /\ pc = "start"
    /\ capOpen' = TRUE
    /\ frame_interval' = FrameIntervalOf(fps100, interval_seconds)
    /\ frame_count' = 0
    /\ saved_count' = 0
    /\ progress' = <<0, 1>>
    /\ total_frames' = declaredFrames
    /\ pc' = "loop"
    /\ UNCHANGED <<caller, exc, fps100, interval_seconds, nFrames, declaredFrames, written,
                   fs, folderState, zipVars, uiVars>>

\* lines 28-30: cap.read() reports exhaustion, the loop breaks
ReadExhausted ==
    /\ pc = "loop"
    /\ frame_count = nFrames
    /\ pc' = "release"
    /\ UNCHANGED <<caller, exc, exVars, fs, folderState, zipVars, uiVars>>

\* line 33 with frame_interval = 0: ZeroDivisionError
IterModuloByZero ==
    /\ pc = "loop"
    /\ frame_count < nFrames
    /\ frame_interval = 0
    /\ exc' = "ZeroDivisionError:modulo"
    /\ pc' = "raised"
    /\ UNCHANGED <<caller, exVars, fs, folderState, zipVars, uiVars>>

\* line 36: cv2.imwrite raises on a frame that is due
IterWriteFails ==
    /\ pc = "loop"
    /\ frame_count < nFrames
    /\ frame_interval # 0
    /\ IsSampled(frame_count, frame_interval)
    /\ exc' = "cv2.error:imwrite"
    /\ pc' = "raised"
    /\ UNCHANGED <<caller, exVars, fs, folderState, zipVars, uiVars>>

\* lines 33-39: what one iteration does to the counters and the output directory
SavedAfter(count, step, saved) == IF IsSampled(count, step) THEN saved + 1 ELSE saved

WrittenAfter(count, step, w) == IF IsSampled(count, step) THEN Append(w, count) ELSE w

\* a variant that names the file by the source index of the frame
FsAfter_NamedByIndex(count, step, saved, files) ==
    IF IsSampled(count, step)
    THEN (Join(OutputDir, FrameFilename(count)) :> [data |-> count, readable |-> TRUE]) @@ files
    ELSE files

\* line 34-36: the frame is written under the next output number
FsAfter(count, step, saved, files) ==
    IF IsSampled(count, step)
    THEN (Join(OutputDir, FrameFilename(saved)) :> [data |-> count, readable |-> TRUE]) @@ files
    ELSE files

IterBody ==
    /\ pc = "loop"
    /\ frame_count < nFrames
    /\ frame_interval # 0
    /\ saved_count' = SavedAfter(frame_count, frame_interval, saved_count)
    /\ written' = WrittenAfter(frame_count, frame_interval, written)
    /\ fs' = FsAfter(frame_count, frame_interval, saved_count, fs)
    /\ frame_count' = frame_count + 1

\* lines 28-43, the iteration runs to its end
IterOk ==
    /\ IterBody
    /\ total_frames > 0
    /\ progress' = Clamped(frame_count + 1, total_frames)
    /\ UNCHANGED <<pc, caller, exc, fps100, interval_seconds, nFrames, declaredFrames, capOpen,
                   frame_interval, total_frames, folderState, zipVars, uiVars>>

\* line 42 with total_frames = 0: ZeroDivisionError
IterProgressByZero ==
    /\ IterBody
    /\ total_frames = 0
    /\ exc' = "ZeroDivisionError:progress"
    /\ pc' = "raised"
    /\ UNCHANGED <<caller, fps100, interval_seconds, nFrames, declaredFrames, capOpen,
                   frame_interval, total_frames, progress, folderState, zipVars, uiVars>>

\* line 43 with total_frames < 0: min() keeps the negative fraction and the
\* progress bar refuses a value outside [0, 1]
IterProgressRefused ==
    /\ IterBody
    /\ total_frames < 0
    /\ progress' = <<-(frame_count + 1), -total_frames>>
    /\ exc' = "StreamlitAPIException:progress"
    /\ pc' = "raised"
    /\ UNCHANGED <<caller, fps100, interval_seconds, nFrames, declaredFrames, capOpen,
                   frame_interval, total_frames, folderState, zipVars, uiVars>>

\* lines 45-46: release the capture and return
ExtractReturn ==
    /\ pc = "release"
    /\ capOpen' = FALSE
    /\ pc' = "returned"
    /\ UNCHANGED <<caller, exc, fps100, interval_seconds, nFrames, declaredFrames,
                   frame_interval, frame_count, saved_count, total_frames, progress, written,
                   fs, folderState, zipVars, uiVars>>

----------------------------------------------------------------------------
(* create_zip_from_folder *)

TempDir == <<"tmp">>

ZipName == "extracted_frames.zip"

\* line 52
ZipPath == Join(TempDir, ZipName)

IsPrefix(d, p) == Len(d) <= Len(p) /\ SubSeq(p, 1, Len(d)) = d

\* the regular files below directory d, at any depth
FilesUnder(d, files) == {p \in DOMAIN files : Len(p) > Len(d) /\ IsPrefix(d, p)}

\* os.walk's `files` for directory d: the names of the files directly in it
FileNamesIn(d, files) == {p[Len(p)] : p \in {q \in FilesUnder(d, files) : Len(q) = Len(d) + 1}}

\* os.walk's `dirs` for directory d, as paths
SubdirsOf(d, files) ==
    {SubSeq(p, 1, Len(d) + 1) : p \in {q \in FilesUnder(d, files) : Len(q) > Len(d) + 1}}

\* the orders in which a directory listing can come back
OrderingsOf(S) ==
    {s \in [1..Cardinality(S) -> S] : \A i, j \in 1..Cardinality(S) : i # j => s[i] # s[j]}

\* a variant that keeps the file name only
Relpath_Basename(p, base) == <<p[Len(p)]>>

\* os.path.relpath(p, base) for p below base
Relpath(p, base) == SubSeq(p, Len(base) + 1, Len(p))

\* the entry zipf.write(file_path, arcname) adds
ZipEntry(file_path, base, files) ==
    [name |-> Relpath(file_path, base), data |-> files[file_path].data]

\* os.walk(folder_path) yields nothing for a directory it cannot list: scandir's
\* error goes to onerror, which is None
WalkStart(folder, state) == IF state = "ok" THEN <<folder>> ELSE <<>>

\* lines 52-55: ZipFile(zip_path, 'w') creates the archive file, the walk starts
ZipOpen ==
    /\ pc = "zip_open"
    /\ zipExists' = TRUE
    /\ archive' = <<>>
    /\ treeAtOpen' = [p \in FilesUnder(folder_path, fs) |-> fs[p]]
    /\ walkStack' = WalkStart(folder_path, folderState)
    /\ walkRoot' = <<>>
    /\ walkFiles' = {}
    /\ pc' = "zip_walk"
    /\ UNCHANGED <<caller, exc, exVars, fs, folderState, folder_path, zipResult, uiVars>>

\* line 55: os.walk yields the next directory, top-down
ZipWalkNext ==
    /\ pc = "zip_walk"
    /\ walkFiles = {}
    /\ walkStack # <<>>
    /\ walkRoot' = Head(walkStack)
    /\ walkFiles' = FileNamesIn(Head(walkStack), fs)
    /\ \E order \in OrderingsOf(SubdirsOf(Head(walkStack), fs)) :
           walkStack' = order \o Tail(walkStack)
    /\ UNCHANGED <<pc, caller, exc, exVars, fs, folderState, folder_path, treeAtOpen,
                   zipExists, archive, zipResult, uiVars>>

\* lines 56-59: one file of the current directory is packed
ZipWriteOk ==
    /\ pc = "zip_walk"
    /\ \E file \in walkFiles :
           /\ fs[Join(walkRoot, file)].readable
           /\ archive' = Append(archive, ZipEntry(Join(walkRoot, file), folder_path, fs))
           /\ walkFiles' = walkFiles \ {file}
    /\ UNCHANGED <<pc, caller, exc, exVars, fs, folderState, folder_path, treeAtOpen,
                   zipExists, walkStack, walkRoot, zipResult, uiVars>>

\* line 59 on a file that cannot be opened: zipf.write raises, the with block
\* closes the archive with the entries it holds and the exception leaves
ZipWriteFails ==
    /\ pc = "zip_walk"
    /\ \E file \in walkFiles : ~fs[Join(walkRoot, file)].readable
    /\ exc' = "PermissionError:zip"
    /\ pc' = "zip_raised"
    /\ UNCHANGED <<caller, exVars, fs, folderState, zipVars, uiVars>>

\* lines 54-61: the walk is over, the archive is closed and its path returned
ZipReturn ==
    /\ pc = "zip_walk"
    /\ walkFiles = {}
    /\ walkStack = <<>>
    /\ zipResult' = ZipPath
    /\ pc' = "zip_returned"
    /\ UNCHANGED <<caller, exc, exVars, fs, folderState, folder_path, treeAtOpen,
                   zipExists, archive, walkStack, walkRoot, walkFiles, uiVars>>

\* unpacking: the files an extraction of the archive leaves, relative to its root
\* (a later entry of the same name overwrites an earlier one)
Unpacked(a) ==
    [n \in {a[i].name : i \in 1..Len(a)} |->
        a[CHOOSE i \in 1..Len(a) : a[i].name = n /\ \A j \in (i + 1)..Len(a) : a[j].name # n].data]

----------------------------------------------------------------------------
(* main, from the click on the extraction button *)

\* a variant that takes zero images for a result
HasImages_AcceptsZero(saved) == saved >= 0

\* line 133
HasImages(saved) == saved > 0

\* lines 133-153: success is shown and the archive of the output directory is asked for
MainSuccess ==
    /\ pc = "returned"
    /\ HasImages(saved_count)
    /\ ui' = "success"
    /\ folder_path' = OutputDir
    /\ pc' = "zip_open"
    /\ UNCHANGED <<caller, exc, exVars, fs, folderState, treeAtOpen, zipExists, archive,
                   walkStack, walkRoot, walkFiles, zipResult, downloadOffered>>

\* lines 175-179: nothing was extracted
MainNoImage ==
    /\ pc = "returned"
    /\ ~HasImages(saved_count)
    /\ ui' = "error:no_image"
    /\ pc' = "done"
    /\ UNCHANGED <<caller, exc, exVars, fs, folderState, zipVars, downloadOffered>>

\* lines 156-179: the archive is read and offered for download
MainDownload ==
    /\ pc = "zip_returned"
    /\ caller = "main"
    /\ downloadOffered' = TRUE
    /\ pc' = "done"
    /\ UNCHANGED <<caller, exc, exVars, fs, folderState, zipVars, ui>>

\* lines 181-182: any exception of the try block is shown as an error
MainExcept ==
    /\ pc \in {"raised", "zip_raised"}
    /\ caller = "main"
    /\ ui' = "error:exception"
    /\ pc' = "done"
    /\ UNCHANGED <<caller, exc, exVars, fs, folderState, zipVars, downloadOffered>>

----------------------------------------------------------------------------
(* The specification *)

\* a click on the button with a video uploaded
InitMain ==
    /\ pc = "start"
    /\ caller = "main"
    /\ fps100 \in FpsSet
    /\ interval_seconds \in IntervalSet
    /\ nFrames \in 0..MaxFrames
    /\ declaredFrames \in DeclaredSet
    /\ fs = <<>>
    /\ folderState = "ok"
    /\ folder_path = <<>>

\* the directories create_zip_from_folder is tried on
DirectFolder == <<"data", "frames">>

TreePaths ==
    {Join(DirectFolder, "a"), Join(DirectFolder, "b"), Join(Join(DirectFolder, "sub"), "a"),
     Join(Join(Join(DirectFolder, "sub"), "deep"), "b")}

FileRecs == [data : 0..MaxData, readable : BOOLEAN]

Trees == UNION {[S -> FileRecs] : S \in SUBSET TreePaths}

\* a call of create_zip_from_folder on a directory of its own
InitDirect ==
    /\ pc = "zip_open"
    /\ caller = "direct"
    /\ fps100 = 0
    /\ interval_seconds = 1
    /\ nFrames = 0
    /\ declaredFrames = 0
    /\ fs \in Trees
    /\ folderState \in {"ok", "missing", "unreadable"}
    /\ folderState = "missing" => fs = <<>>
    /\ folder_path = DirectFolder

Init ==
    /\ (InitMain \/ InitDirect)
    /\ exc = "none"
    /\ capOpen = FALSE
    /\ frame_interval = 0
    /\ frame_count = 0
    /\ saved_count = 0
    /\ total_frames = 0
    /\ progress = <<0, 1>>
    /\ written = <<>>
    /\ treeAtOpen = <<>>
    /\ zipExists = FALSE
    /\ archive = <<>>
    /\ walkStack = <<>>
    /\ walkRoot = <<>>
    /\ walkFiles = {}
    /\ zipResult = <<>>
    /\ ui = "none"
    /\ downloadOffered = FALSE

Next ==
    \/ ExtractOpen
    \/ ReadExhausted
    \/ IterModuloByZero
    \/ IterWriteFails
    \/ IterOk
    \/ IterProgressByZero
    \/ IterProgressRefused
    \/ ExtractReturn
    \/ ZipOpen
    \/ ZipWalkNext
    \/ ZipWriteOk
    \/ ZipWriteFails
    \/ ZipReturn
    \/ MainSuccess
    \/ MainNoImage
    \/ MainDownload
    \/ MainExcept

Spec == Init /\ [][Next]_vars

----------------------------------------------------------------------------
(* The claims *)

InExtraction == caller = "main" /\ pc # "start"

\* round(x100 / 100), halves rounded up
Round100(x100) == (x100 + 50) \div 100

\* ceil(a / b) for a >= 0, b >= 1
CeilDiv(a, b) == (a + b - 1) \div b

\* C1: with a frame step S >= 1 the number of frames saved is ceil(consumed / S)
\* after every iteration, and when the function returns every one of the N
\* frames was consumed, so that it returns ceil(N / S).
C1_SavedCountIsCeil ==
    (InExtraction /\ frame_interval >= 1) =>
        /\ saved_count = CeilDiv(frame_count, frame_interval)
        /\ pc = "returned" =>
               /\ frame_count = nFrames
               /\ saved_count = CeilDiv(nFrames, frame_interval)

C1_Witness ==
    /\ pc = "returned"
    /\ frame_interval = 2
    /\ nFrames = 3
    /\ saved_count = 2

\* C2 as stated: for a positive frame rate the frame step is
\* round(frame rate x interval).
C2_FrameStepIsRound ==
    (InExtraction /\ fps100 > 0) => frame_interval = Round100(fps100 * interval_seconds)

\* C2 as amended: for a positive frame rate the frame step is the product
\* frame rate x interval with its fractional part dropped; it is the rounded
\* product only where that fractional part is below one half.
C2_FrameStepIsTruncation ==
    (InExtraction /\ fps100 > 0) =>
        /\ frame_interval * 100 <= fps100 * interval_seconds
        /\ fps100 * interval_seconds < (frame_interval + 1) * 100
        /\ (fps100 * interval_seconds) % 100 < 50 =>
               frame_interval = Round100(fps100 * interval_seconds)

C2_Witness ==
    /\ pc = "loop"
    /\ fps100 = 2997
    /\ interval_seconds = 2
    /\ frame_interval = 59

\* C3: when the frame step computes to 0 the run never evaluates index mod 0
\* and never ends in an arithmetic failure: it samples with step 1 or fails
\* with an InvalidInput error.
C3_ZeroStepHasPolicy ==
    (InExtraction /\ FrameIntervalOf(fps100, interval_seconds) = 0) =>
        /\ exc # "ZeroDivisionError:modulo"
        /\ pc = "raised" => exc = "InvalidInput"

\* C4: whatever total the container declares, the loop stops only on
\* exhaustion of the source, the declared total never aborts the run, and
\* every fraction handed to the progress bar lies in [0, 1].
C4_DeclaredTotalIsAdvisory ==
    InExtraction =>
        /\ exc \notin {"ZeroDivisionError:progress", "StreamlitAPIException:progress"}
        /\ 0 <= progress[1] /\ progress[1] <= progress[2]
        /\ pc = "release" => frame_count = nFrames

\* C5: the capture handle is closed on every path that leaves
\* extract_frames_from_video, by return or by exception.
C5_HandleReleasedOnExit ==
    (caller = "main" /\ pc \notin {"start", "loop", "release"}) => ~capOpen

\* C6: a video that yields no frame is never reported as a success: the
\* request ends with the error shown, no archive built and no download offered.
C6_EmptyVideoIsReportedFailure ==
    (caller = "main" /\ nFrames = 0) =>
        /\ ui # "success"
        /\ ~zipExists
        /\ ~downloadOffered
        /\ pc = "done" => ui = "error:no_image"

C6_Witness ==
    /\ caller = "main"
    /\ nFrames = 0
    /\ frame_interval = 0
    /\ saved_count = 0
    /\ pc = "done"
    /\ ui = "error:no_image"

\* C7: create_zip_from_folder never returns an archive path for a directory
\* that is missing or cannot be read.
C7_MissingFolderFails ==
    (caller = "direct" /\ folderState # "ok") => pc # "zip_returned"

\* C8: when a file cannot be read during packing the build fails and leaves
\* no archive file at the archive path.
C8_NoPartialArchive ==
    pc = "zip_raised" => ~zipExists

C10_SavedFramesAreTheMultiples ==
    (InExtraction /\ pc \in {"loop", "release", "raised", "returned"} /\ frame_interval >= 1) =>
        /\ Len(written) = saved_count
        /\ {written[k] : k \in 1..Len(written)}
               = {i \in 0..(frame_count - 1) : i % frame_interval = 0}
        /\ \A k \in 1..Len(written) :
               /\ written[k] = (k - 1) * frame_interval
               /\ k - 1 <= written[k]
               /\ Join(OutputDir, FrameFilename(k - 1)) \in DOMAIN fs
               /\ fs[Join(OutputDir, FrameFilename(k - 1))].data = written[k]
        /\ Cardinality(DOMAIN fs) = saved_count

C10_Witness ==
    /\ pc = "loop"
    /\ frame_interval = 2
    /\ frame_count = 4
    /\ written = <<0, 2>>
    /\ saved_count = 2

====
